---- MODULE Spec2Model ----
(***************************************************************************)
(* A model of the greenlight REST API: the repositories of                 *)
(* internal/data/movies.go (MovieModel, ActorModel, DirectorModel) over a  *)
(* PostgreSQL database, and the HTTP handlers of cmd/api/movies.go that    *)
(* call them.  One SQL statement is one atomic step; a handler that reads  *)
(* a record and later writes it takes two steps, and other requests may    *)
(* run in between.                                                         *)
(*                                                                         *)
(* Strings that the code takes apart are sequences: a title is the         *)
(* sequence of its words, a sort key the sequence of its characters.  A Go *)
(* pointer or slice that may be nil is a sequence of length 0 (nil) or 1.  *)
(* The created_at column is assigned by NOW() and read by no decision of   *)
(* the code; the rows the create handlers store leave it out.  ORDER BY may *)
(* name it, so the rows of the listed data sets carry it.                  *)
(***************************************************************************)
EXTENDS Integers, Sequences, FiniteSets, Bags, TLC

\* ------------------------------------------------------------------ bounds
\* Ids the bigserial sequences may hand out.
MaxId == 2
\* Requests in flight at the same time.
NumReqs == 2
\* Update requests are no longer started on a movie at this version.
MaxVersion == 3
\* Pages and page sizes a list request may ask for run up to this number.
MaxPage == 3

\* ------------------------------------------------------------------ values
Nil == <<>>
Some(x) == <<x>>

\* Go's error values as the repositories return them.
NoErr == "nil"
ErrRecordNotFound == "ErrRecordNotFound"
ErrEditConflict == "ErrEditConflict"
ErrNoRows == "sql.ErrNoRows"
\* Any other failure of the driver or the database (connection, constraint,
\* malformed statement, timeout).
ErrStorage == "storage error"

\* HTTP statuses the handlers write.
StatusOK == 200
StatusCreated == 201
StatusBadRequest == 400
StatusNotFound == 404
StatusConflict == 409
StatusServerError == 500

\* Ids a request may name: 0 (below every stored id), and every id of the
\* sequence.
IdParams == 0..MaxId

\* The zero value of data.Movie and of data.Actor.
ZeroMovie ==
  [ID |-> 0, Title |-> <<>>, Year |-> 0, Runtime |-> 0, Genres |-> Nil, Version |-> 0]
ZeroActor ==
  [ID |-> 0, Fullname |-> <<>>, Year |-> 0, Films |-> Nil, Girlfriend |-> <<>>]

\* The zero value of data.Directors.
ZeroDirector == [ID |-> 0, Name |-> <<>>, Surname |-> <<>>, Awords |-> Nil]

\* Request bodies.  A field is Nil when the JSON object has no such key.
MovieBodies ==
  { [title |-> Some(<<"dune">>), year |-> Some(2021), runtime |-> Some(155),
     genres |-> Some(<<"sci-fi">>)],
    [title |-> Some(<<"heat">>), year |-> Some(1995), runtime |-> Nil,
     genres |-> Nil] }
ActorBodies ==
  { [fullname |-> Some(<<"al", "pacino">>), year |-> Some(1940),
     films |-> Some(<<"heat">>), girlfriend |-> Some(<<"x">>)],
    [fullname |-> Some(<<"zendaya">>), year |-> Nil,
     films |-> Some(<<"dune">>), girlfriend |-> Nil],
    [fullname |-> Some(<<"zendaya">>), year |-> Some(1996),
     films |-> Nil, girlfriend |-> Nil] }
DirectorBodies ==
  { [name |-> Some(<<"denis">>), surname |-> Some(<<"villeneuve">>),
     awords |-> Some(<<"oscar">>)],
    [name |-> Some(<<"michael">>), surname |-> Nil, awords |-> Nil] }

\* What a body that fails to decode leaves in the input struct: nothing (the
\* body is not JSON), or the fields decoded apart from the one in error (a
\* value of the wrong type).  A field left at its zero value is Nil.
MovieBodiesFailed ==
  { [title |-> Nil, year |-> Nil, runtime |-> Nil, genres |-> Nil],
    [title |-> Some(<<"dune">>), year |-> Nil, runtime |-> Nil, genres |-> Nil] }
ActorBodiesFailed ==
  { [fullname |-> Nil, year |-> Nil, films |-> Nil, girlfriend |-> Nil],
    [fullname |-> Nil, year |-> Nil, films |-> Some(<<"heat">>), girlfriend |-> Nil] }
DirectorBodiesFailed ==
  { [name |-> Nil, surname |-> Nil, awords |-> Nil],
    [name |-> Some(<<"denis">>), surname |-> Nil, awords |-> Nil] }

\* What the database does with a statement: "up" executes it; "down" fails it
\* before it has any effect (no connection, a cancelled context); "strict"
\* executes it with movies.genres declared NOT NULL, as actor.films is (the
\* movies migration is not part of the sources, so both are possible).
Database == {"up", "down", "strict"}
\* The same for a statement that sets no column.
Reachable == {"up", "down"}

\* The value a non-pointer struct field holds after decoding: the key's value,
\* or the zero value when the key is absent.
OrZero(opt, zero) == IF opt = Nil THEN zero ELSE opt[1]

\* ------------------------------------------------------- the movies table
\* A row as the statements see it, and the record a row scans into.
MovieRow(m) ==
  [title |-> m.Title, year |-> m.Year, runtime |-> m.Runtime,
   genres |-> m.Genres, version |-> m.Version]
\* A variant of the scan that leaves the record's Version at its zero value.
MovieOfNoVersion(id, row) ==
  [ID |-> id, Title |-> row.title, Year |-> row.year, Runtime |-> row.runtime,
   Genres |-> row.genres, Version |-> 0]
MovieOf(id, row) ==
  [ID |-> id, Title |-> row.title, Year |-> row.year, Runtime |-> row.runtime,
   Genres |-> row.genres, Version |-> row.version]

\* A repository call's outcome: the table and sequence after it, the error it
\* returns and the caller's record after it.
\* sent says whether a statement was handed to the driver.
Outcome(tbl, seq, err, rec) ==
  [tbl |-> tbl, seq |-> seq, err |-> err, rec |-> rec, sent |-> TRUE]
Unsent(tbl, seq, err, rec) ==
  [tbl |-> tbl, seq |-> seq, err |-> err, rec |-> rec, sent |-> FALSE]

\* A variant of the insert that numbers a row by the count of the rows stored
\* instead of by the sequence.
MovieInsertCountId(tbl, seq, movie, db) ==
  IF db = "down" THEN Outcome(tbl, seq, ErrStorage, movie)
  ELSE IF db = "strict" /\ movie.Genres = Nil THEN Outcome(tbl, seq, ErrStorage, movie)
  ELSE LET id == Cardinality(DOMAIN tbl) + 1
           stored == [movie EXCEPT !.ID = id, !.Version = 1]
       IN Outcome((id :> MovieRow(stored)) @@ tbl, seq, NoErr, stored)

\* A variant of the insert that stores the version of the caller's record.
MovieInsertCallerVersion(tbl, seq, movie, db) ==
  IF db = "down" THEN Outcome(tbl, seq, ErrStorage, movie)
  ELSE IF db = "strict" /\ movie.Genres = Nil THEN Outcome(tbl, seq + 1, ErrStorage, movie)
  ELSE LET id == seq + 1
           stored == [movie EXCEPT !.ID = id]
       IN Outcome(tbl @@ (id :> MovieRow(stored)), id, NoErr, stored)

\* INSERT INTO movies(title, year, runtime, genres) VALUES ($1..$4)
\* RETURNING id, created_at, version.  The id is nextval of the sequence, which
\* a failed insert consumes too; version is the column's default, 1.  A nil
\* slice is sent as NULL.
MovieInsert(tbl, seq, movie, db) ==
  IF db = "down" THEN Outcome(tbl, seq, ErrStorage, movie)
  ELSE IF db = "strict" /\ movie.Genres = Nil THEN Outcome(tbl, seq + 1, ErrStorage, movie)
  ELSE LET id == seq + 1
           stored == [movie EXCEPT !.ID = id, !.Version = 1]
       IN Outcome(tbl @@ (id :> MovieRow(stored)), id, NoErr, stored)

\* A variant of Get that reports every failure as ErrRecordNotFound.
MovieGetAllNotFound(tbl, seq, id, db) ==
  IF id < 1 THEN Unsent(tbl, seq, ErrRecordNotFound, ZeroMovie)
  ELSE IF db = "down" \/ id \notin DOMAIN tbl
       THEN Outcome(tbl, seq, ErrRecordNotFound, ZeroMovie)
  ELSE Outcome(tbl, seq, NoErr, MovieOf(id, tbl[id]))

\* SELECT ... FROM movies WHERE id = $1, after the id < 1 check.
MovieGet(tbl, seq, id, db) ==
  IF id < 1 THEN Unsent(tbl, seq, ErrRecordNotFound, ZeroMovie)
  ELSE IF db = "down" THEN Outcome(tbl, seq, ErrStorage, ZeroMovie)
  ELSE IF id \notin DOMAIN tbl THEN Outcome(tbl, seq, ErrRecordNotFound, ZeroMovie)
  ELSE Outcome(tbl, seq, NoErr, MovieOf(id, tbl[id]))

\* Variants of the WHERE clause: keyed on the id alone, and accepting any
\* version up to the stored one.
UpdateMatchesIdOnly(tbl, movie) == movie.ID \in DOMAIN tbl
UpdateMatchesOlder(tbl, movie) ==
  movie.ID \in DOMAIN tbl /\ tbl[movie.ID].version >= movie.Version

\* The rows UPDATE movies ... WHERE id = $5 AND version = $6 changes.
UpdateMatches(tbl, movie) ==
  movie.ID \in DOMAIN tbl /\ tbl[movie.ID].version = movie.Version

\* A variant of the statement that leaves the version column alone.
MovieUpdateNoBump(tbl, seq, movie, db) ==
  IF db = "down" THEN Outcome(tbl, seq, ErrStorage, movie)
  ELSE IF ~UpdateMatches(tbl, movie) THEN Outcome(tbl, seq, ErrEditConflict, movie)
  ELSE IF db = "strict" /\ movie.Genres = Nil THEN Outcome(tbl, seq, ErrStorage, movie)
  ELSE Outcome([tbl EXCEPT ![movie.ID] = MovieRow(movie)], seq, NoErr, movie)

\* A variant of Update that reports a row that is not stored as
\* ErrRecordNotFound.
MovieUpdateNotFound(tbl, seq, movie, db) ==
  IF db = "down" THEN Outcome(tbl, seq, ErrStorage, movie)
  ELSE IF movie.ID \notin DOMAIN tbl THEN Outcome(tbl, seq, ErrRecordNotFound, movie)
  ELSE IF ~UpdateMatches(tbl, movie) THEN Outcome(tbl, seq, ErrEditConflict, movie)
  ELSE IF db = "strict" /\ movie.Genres = Nil THEN Outcome(tbl, seq, ErrStorage, movie)
  ELSE LET v == tbl[movie.ID].version + 1
           written == [movie EXCEPT !.Version = v]
       IN Outcome([tbl EXCEPT ![movie.ID] = MovieRow(written)], seq, NoErr, written)

\* A variant of Update whose statement is keyed on the id alone and whose
\* version check comes after it: a stale record is written and then reported.
MovieUpdateWritesThenChecks(tbl, seq, movie, db) ==
  IF db = "down" THEN Outcome(tbl, seq, ErrStorage, movie)
  ELSE IF movie.ID \notin DOMAIN tbl THEN Outcome(tbl, seq, ErrEditConflict, movie)
  ELSE IF db = "strict" /\ movie.Genres = Nil THEN Outcome(tbl, seq, ErrStorage, movie)
  ELSE LET v == tbl[movie.ID].version + 1
           written == [movie EXCEPT !.Version = v]
       IN IF tbl[movie.ID].version # movie.Version
          THEN Outcome([tbl EXCEPT ![movie.ID] = MovieRow(written)], seq,
                       ErrEditConflict, movie)
          ELSE Outcome([tbl EXCEPT ![movie.ID] = MovieRow(written)], seq, NoErr, written)

\* UPDATE movies SET title = $1, year = $2, runtime = $3, genres = $4,
\* version = version + 1 WHERE id = $5 AND version = $6 RETURNING version:
\* one atomic statement.  No row returned is ErrEditConflict.
MovieUpdate(tbl, seq, movie, db) ==
  IF db = "down" THEN Outcome(tbl, seq, ErrStorage, movie)
  ELSE IF ~UpdateMatches(tbl, movie) THEN Outcome(tbl, seq, ErrEditConflict, movie)
  ELSE IF db = "strict" /\ movie.Genres = Nil THEN Outcome(tbl, seq, ErrStorage, movie)
  ELSE LET v == tbl[movie.ID].version + 1
           written == [movie EXCEPT !.Version = v]
       IN Outcome([tbl EXCEPT ![movie.ID] = MovieRow(written)], seq, NoErr, written)

\* A table without the row of id.
Without(tbl, id) == [i \in DOMAIN tbl \ {id} |-> tbl[i]]

\* A variant of Delete without the RowsAffected check.
MovieDeleteUnchecked(tbl, seq, id, db) ==
  IF id < 1 THEN Unsent(tbl, seq, ErrRecordNotFound, ZeroMovie)
  ELSE IF db = "down" THEN Outcome(tbl, seq, ErrStorage, ZeroMovie)
  ELSE Outcome(Without(tbl, id), seq, NoErr, ZeroMovie)

\* DELETE FROM movies WHERE id = $1, after the id < 1 check; no row affected
\* is ErrRecordNotFound.
MovieDelete(tbl, seq, id, db) ==
  IF id < 1 THEN Unsent(tbl, seq, ErrRecordNotFound, ZeroMovie)
  ELSE IF db = "down" THEN Outcome(tbl, seq, ErrStorage, ZeroMovie)
  ELSE IF id \notin DOMAIN tbl THEN Outcome(tbl, seq, ErrRecordNotFound, ZeroMovie)
  ELSE Outcome(Without(tbl, id), seq, NoErr, ZeroMovie)

\* -------------------------------------------------------- the actor table
ActorRow(a) ==
  [fullname |-> a.Fullname, year |-> a.Year, films |-> a.Films,
   girlfriend |-> a.Girlfriend]
ActorOf(id, row) ==
  [ID |-> id, Fullname |-> row.fullname, Year |-> row.year, Films |-> row.films,
   Girlfriend |-> row.girlfriend]

\* INSERT INTO actor(fullname, year, girlfriend, films) ... RETURNING id,
\* created_at.  films is text[] not NULL.
INSERTACTOR(tbl, seq, actor, db) ==
  IF db = "down" THEN Outcome(tbl, seq, ErrStorage, actor)
  ELSE IF actor.Films = Nil THEN Outcome(tbl, seq + 1, ErrStorage, actor)
  ELSE LET id == seq + 1
           stored == [actor EXCEPT !.ID = id]
       IN Outcome(tbl @@ (id :> ActorRow(stored)), id, NoErr, stored)

GetActors(tbl, seq, id, db) ==
  IF id < 1 THEN Unsent(tbl, seq, ErrRecordNotFound, ZeroActor)
  ELSE IF db = "down" THEN Outcome(tbl, seq, ErrStorage, ZeroActor)
  ELSE IF id \notin DOMAIN tbl THEN Outcome(tbl, seq, ErrRecordNotFound, ZeroActor)
  ELSE Outcome(tbl, seq, NoErr, ActorOf(id, tbl[id]))

\* A variant of UpdateActor that leaves the girlfriend column as it is stored.
UpdateActorKeepsGirlfriend(tbl, seq, actor, db) ==
  IF db = "down" THEN Outcome(tbl, seq, ErrStorage, actor)
  ELSE IF actor.ID \notin DOMAIN tbl THEN Outcome(tbl, seq, ErrNoRows, actor)
  ELSE IF actor.Films = Nil THEN Outcome(tbl, seq, ErrStorage, actor)
  ELSE Outcome([tbl EXCEPT ![actor.ID] =
                  [ActorRow(actor) EXCEPT !.girlfriend = tbl[actor.ID].girlfriend]],
               seq, NoErr, actor)

\* A variant of UpdateActor that maps sql.ErrNoRows to ErrRecordNotFound.
UpdateActorNotFound(tbl, seq, actor, db) ==
  IF db = "down" THEN Outcome(tbl, seq, ErrStorage, actor)
  ELSE IF actor.ID \notin DOMAIN tbl THEN Outcome(tbl, seq, ErrRecordNotFound, actor)
  ELSE IF actor.Films = Nil THEN Outcome(tbl, seq, ErrStorage, actor)
  ELSE Outcome([tbl EXCEPT ![actor.ID] = ActorRow(actor)], seq, NoErr, actor)

\* UPDATE actor SET ... WHERE id = $5 RETURNING girlfriend; the Scan's error is
\* returned as it is.
UpdateActor(tbl, seq, actor, db) ==
  IF db = "down" THEN Outcome(tbl, seq, ErrStorage, actor)
  ELSE IF actor.ID \notin DOMAIN tbl THEN Outcome(tbl, seq, ErrNoRows, actor)
  ELSE IF actor.Films = Nil THEN Outcome(tbl, seq, ErrStorage, actor)
  ELSE Outcome([tbl EXCEPT ![actor.ID] = ActorRow(actor)], seq, NoErr, actor)

DeleteActor(tbl, seq, id, db) ==
  IF id < 1 THEN Unsent(tbl, seq, ErrRecordNotFound, ZeroActor)
  ELSE IF db = "down" THEN Outcome(tbl, seq, ErrStorage, ZeroActor)
  ELSE IF id \notin DOMAIN tbl THEN Outcome(tbl, seq, ErrRecordNotFound, ZeroActor)
  ELSE Outcome(Without(tbl, id), seq, NoErr, ZeroActor)

\* ---------------------------------------------------- the directors table
DirectorRow(d) == [name |-> d.Name, surname |-> d.Surname, awords |-> d.Awords]

\* INSERT INTO directors(name, surname, awords) VALUES ($1, $2, $3) RETURNING
\* id.  The directors migration is not part of the sources: under "strict"
\* awords is declared NOT NULL, as actor.films is.
InsertDirector(tbl, seq, director, db) ==
  IF db = "down" THEN Outcome(tbl, seq, ErrStorage, director)
  ELSE IF db = "strict" /\ director.Awords = Nil
       THEN Outcome(tbl, seq + 1, ErrStorage, director)
  ELSE LET id == seq + 1
           stored == [director EXCEPT !.ID = id]
       IN Outcome(tbl @@ (id :> DirectorRow(stored)), id, NoErr, stored)

VARIABLES
  movies,     \* the movies table: id -> row
  movieSeq,   \* last value of movies_id_seq
  actors,     \* the actor table: id -> row
  actorSeq,   \* last value of actor_id_seq
  directors,  \* the directors table: id -> row
  directorSeq, \* last value of directors_id_seq
  entity,     \* the entity the requests of this run are about
  req,        \* the requests between their Get and their Update: a bag of
              \* the handler each runs and the record it has read
  call,       \* the last repository call: its arguments and its result
  resp,       \* the statuses written to the last answered request
  won,        \* history: the <<id, version>> an Update has succeeded with
  gone        \* history: the <<table, id>> a Delete has succeeded on

vars == <<movies, movieSeq, actors, actorSeq, directors, directorSeq, entity, req, call, resp, won, gone>>

\* ---------------------------------------------------------------- logging
RowAt(tbl, id) == IF id \in DOMAIN tbl THEN Some(tbl[id]) ELSE Nil

\* What is kept of a repository call: the record (or id) passed, the ids
\* stored and the row of that id before the call, the outcome, the row of that
\* id (for an insert: of the returned id) after the call, whether a statement
\* was sent, whether the database was down for it, and whether the same call
\* had succeeded before (an Update of this id at this version, a Delete of this
\* id).
Logged(op, arg, tbl, o, db, again) ==
  [op |-> op, arg |-> arg, ids |-> DOMAIN tbl, pre |-> RowAt(tbl, arg.ID),
   err |-> o.err, rec |-> o.rec,
   post |-> RowAt(o.tbl, IF op \in {"Insert", "INSERTACTOR", "InsertDirector"}
                         THEN o.rec.ID ELSE arg.ID),
   sent |-> o.sent, down |-> o.sent /\ db = "down", again |-> again]
\* The log of an update handler's call also keeps the record the handler had
\* read with its Get.
AfterRead(log, read) == log @@ [read |-> read]
\* It keeps the decoded request body as well.
WithBody(log, body) == log @@ [body |-> body]
NoCall ==
  [op |-> "none", arg |-> ZeroMovie, ids |-> {}, pre |-> Nil,
   err |-> NoErr, rec |-> ZeroMovie, post |-> Nil,
   sent |-> FALSE, down |-> FALSE, again |-> FALSE]

Answer(h, codes) == [h |-> h, codes |-> codes]
NoAnswer == Answer("none", <<>>)

\* A request that has read its record and has yet to write it.
Pending(h, movie, actor) == [h |-> h, movie |-> movie, actor |-> actor]
\* The server takes a new request while fewer than NumReqs are in flight.
Free == BagCardinality(req) < NumReqs

\* The status a show or delete handler, and the first half of updateMovieHandler
\* and updateActorHandler, write for a repository error.
NotFoundOrServerError(err) ==
  IF err = ErrRecordNotFound THEN StatusNotFound ELSE StatusServerError
\* The same switch in updateMovieeHandler, which tests for ErrEditConflict.
ConflictOrServerError(err) ==
  IF err = ErrEditConflict THEN StatusConflict ELSE StatusServerError

Init ==
  /\ movies = <<>>
  /\ movieSeq = 0
  /\ actors = <<>>
  /\ actorSeq = 0
  /\ directors = <<>>
  /\ directorSeq = 0
  /\ entity \in {"movie", "actor", "director"}
  /\ req = EmptyBag
  /\ call = NoCall
  /\ resp = NoAnswer
  /\ won = {}
  /\ gone = {}

\* ---------------------------------------------------------- movie handlers
\* createMovieHandler: a body that fails to decode is answered 400, and the
\* handler goes on with the input struct as readJSON left it.
createMovieHandler ==
  /\ entity = "movie"
  /\ Free
  /\ movieSeq < MaxId
  /\ \E decoded \in BOOLEAN : \E body \in IF decoded THEN MovieBodies ELSE MovieBodiesFailed,
        db \in Database :
       LET movie == [ZeroMovie EXCEPT !.Title = OrZero(body.title, <<>>),
                                      !.Year = OrZero(body.year, 0),
                                      !.Runtime = OrZero(body.runtime, 0),
                                      !.Genres = body.genres]
           o == MovieInsert(movies, movieSeq, movie, db)
           first == IF decoded THEN <<>> ELSE <<StatusBadRequest>>
       IN /\ movies' = o.tbl
          /\ movieSeq' = o.seq
          /\ call' = Logged("Insert", movie, movies, o, db,
                              FALSE)
          /\ resp' = Answer("createMovie",
                        first \o <<IF o.err # NoErr THEN StatusServerError
                                                     ELSE StatusCreated>>)
  /\ UNCHANGED <<actors, actorSeq, directors, directorSeq, entity, req, won, gone>>

showMovieHandler ==
  /\ entity = "movie"
  /\ Free
  /\ \E idOk \in BOOLEAN : \E id \in IF idOk THEN IdParams ELSE {0},
        db \in IF idOk THEN Reachable ELSE {"up"} :
       IF ~idOk
       THEN /\ call' = NoCall
            /\ resp' = Answer("showMovie", <<StatusNotFound>>)
       ELSE LET o == MovieGet(movies, movieSeq, id, db)
            IN /\ call' = Logged("Get", [ZeroMovie EXCEPT !.ID = id], movies, o, db,
                              FALSE)
               /\ resp' = Answer("showMovie",
                             <<IF o.err # NoErr THEN NotFoundOrServerError(o.err)
                                                ELSE StatusOK>>)
  /\ UNCHANGED <<movies, movieSeq, actors, actorSeq, directors, directorSeq, entity, req, won, gone>>

deleteMovieHandler ==
  /\ entity = "movie"
  /\ Free
  /\ \E idOk \in BOOLEAN : \E id \in IF idOk THEN IdParams ELSE {0},
        db \in IF idOk THEN Reachable ELSE {"up"} :
       IF ~idOk
       THEN /\ call' = NoCall
            /\ resp' = Answer("deleteMovie", <<StatusNotFound>>)
            /\ UNCHANGED movies
            /\ UNCHANGED gone
       ELSE LET o == MovieDelete(movies, movieSeq, id, db)
            IN /\ movies' = o.tbl
               /\ gone' = IF o.err = NoErr THEN gone \cup {<<"movies", id>>} ELSE gone
               /\ call' = Logged("Delete", [ZeroMovie EXCEPT !.ID = id], movies, o, db,
                              <<"movies", id>> \in gone)
               /\ resp' = Answer("deleteMovie",
                             <<IF o.err # NoErr THEN NotFoundOrServerError(o.err)
                                                ELSE StatusOK>>)
  /\ UNCHANGED <<movieSeq, actors, actorSeq, directors, directorSeq, entity, req, won>>

\* An update request is started only on a movie below MaxVersion.
BelowMaxVersion(id) == id \in DOMAIN movies => movies[id].version < MaxVersion

\* updateMovieHandler up to its Get: readIDParam, Get, and the error switch.
updateMovieHandlerGet ==
  /\ entity = "movie"
  /\ Free
  /\ \E idOk \in BOOLEAN : \E id \in IF idOk THEN IdParams ELSE {0},
        db \in IF idOk THEN Reachable ELSE {"up"} :
       /\ BelowMaxVersion(id)
       /\ IF ~idOk
          THEN /\ call' = NoCall
               /\ resp' = Answer("updateMovie", <<StatusNotFound>>)
               /\ UNCHANGED req
          ELSE LET o == MovieGet(movies, movieSeq, id, db)
               IN /\ call' = Logged("Get", [ZeroMovie EXCEPT !.ID = id], movies, o, db,
                              FALSE)
                  /\ IF o.err # NoErr
                     THEN /\ resp' = Answer("updateMovie",
                                            <<NotFoundOrServerError(o.err)>>)
                          /\ UNCHANGED req
                     ELSE /\ resp' = Answer("updateMovie", <<>>)
                          /\ req' = req (+) SetToBag({Pending("updateMovie", o.rec, ZeroActor)})
  /\ UNCHANGED <<movies, movieSeq, actors, actorSeq, directors, directorSeq, entity, won, gone>>

\* updateMovieHandler from readJSON on: every field is overwritten with the
\* decoded input, and any error of Update is answered with a server error.
updateMovieHandlerUpdate ==
  \E p \in BagToSet(req) :
  /\ p.h = "updateMovie"
  /\ \E decoded \in BOOLEAN : \E body \in IF decoded THEN MovieBodies ELSE MovieBodiesFailed,
        db \in IF decoded THEN Database ELSE {"up"} :
       IF ~decoded
       THEN /\ call' = NoCall
            /\ resp' = Answer("updateMovie", <<StatusBadRequest>>)
            /\ UNCHANGED movies
            /\ UNCHANGED won
       ELSE LET movie == [p.movie EXCEPT !.Title = OrZero(body.title, <<>>),
                                              !.Year = OrZero(body.year, 0),
                                              !.Runtime = OrZero(body.runtime, 0),
                                              !.Genres = body.genres]
                o == MovieUpdate(movies, movieSeq, movie, db)
            IN /\ movies' = o.tbl
               /\ won' = IF o.err = NoErr
                         THEN won \cup {<<movie.ID, movie.Version>>} ELSE won
               /\ call' = WithBody(AfterRead(Logged("Update", movie, movies, o, db,
                                                     <<movie.ID, movie.Version>> \in won),
                                              p.movie),
                                    body)
               /\ resp' = Answer("updateMovie",
                             <<IF o.err # NoErr THEN StatusServerError ELSE StatusOK>>)
  /\ req' = req (-) SetToBag({p})
  /\ UNCHANGED <<movieSeq, actors, actorSeq, directors, directorSeq, entity, gone>>

\* updateMovieeHandler up to its Get; its error switch tests for
\* ErrEditConflict, which Get never returns.
updateMovieeHandlerGet ==
  /\ entity = "movie"
  /\ Free
  /\ \E idOk \in BOOLEAN : \E id \in IF idOk THEN IdParams ELSE {0},
        db \in IF idOk THEN Reachable ELSE {"up"} :
       /\ BelowMaxVersion(id)
       /\ IF ~idOk
          THEN /\ call' = NoCall
               /\ resp' = Answer("updateMoviee", <<StatusNotFound>>)
               /\ UNCHANGED req
          ELSE LET o == MovieGet(movies, movieSeq, id, db)
               IN /\ call' = Logged("Get", [ZeroMovie EXCEPT !.ID = id], movies, o, db,
                              FALSE)
                  /\ IF o.err # NoErr
                     THEN /\ resp' = Answer("updateMoviee",
                                            <<ConflictOrServerError(o.err)>>)
                          /\ UNCHANGED req
                     ELSE /\ resp' = Answer("updateMoviee", <<>>)
                          /\ req' = req (+) SetToBag({Pending("updateMoviee", o.rec, ZeroActor)})
  /\ UNCHANGED <<movies, movieSeq, actors, actorSeq, directors, directorSeq, entity, won, gone>>

\* A variant of updateMovieeHandler's second half that overwrites every field,
\* as updateMovieHandler does.
updateMovieeHandlerUpdateOverwrites ==
  \E p \in BagToSet(req) :
  /\ p.h = "updateMoviee"
  /\ \E decoded \in BOOLEAN : \E body \in IF decoded THEN MovieBodies ELSE MovieBodiesFailed,
        db \in IF decoded THEN Database ELSE {"up"} :
       IF ~decoded
       THEN /\ call' = NoCall
            /\ resp' = Answer("updateMoviee", <<StatusBadRequest>>)
            /\ UNCHANGED movies
            /\ UNCHANGED won
       ELSE LET old == p.movie
                movie == [old EXCEPT !.Title = OrZero(body.title, <<>>),
                                     !.Year = OrZero(body.year, 0),
                                     !.Runtime = OrZero(body.runtime, 0),
                                     !.Genres = body.genres]
                o == MovieUpdate(movies, movieSeq, movie, db)
            IN /\ movies' = o.tbl
               /\ won' = IF o.err = NoErr
                         THEN won \cup {<<movie.ID, movie.Version>>} ELSE won
               /\ call' = WithBody(AfterRead(Logged("Update", movie, movies, o, db,
                                                     <<movie.ID, movie.Version>> \in won),
                                              p.movie),
                                    body)
               /\ resp' = Answer("updateMoviee",
                             <<IF o.err # NoErr THEN StatusServerError ELSE StatusOK>>)
  /\ req' = req (-) SetToBag({p})
  /\ UNCHANGED <<movieSeq, actors, actorSeq, directors, directorSeq, entity, gone>>

\* updateMovieeHandler from readJSON on: only the fields the body holds are
\* overwritten.
updateMovieeHandlerUpdate ==
  \E p \in BagToSet(req) :
  /\ p.h = "updateMoviee"
  /\ \E decoded \in BOOLEAN : \E body \in IF decoded THEN MovieBodies ELSE MovieBodiesFailed,
        db \in IF decoded THEN Database ELSE {"up"} :
       IF ~decoded
       THEN /\ call' = NoCall
            /\ resp' = Answer("updateMoviee", <<StatusBadRequest>>)
            /\ UNCHANGED movies
            /\ UNCHANGED won
       ELSE LET old == p.movie
                movie == [old EXCEPT !.Title = OrZero(body.title, old.Title),
                                     !.Year = OrZero(body.year, old.Year),
                                     !.Runtime = OrZero(body.runtime, old.Runtime),
                                     !.Genres = IF body.genres # Nil THEN body.genres
                                                ELSE old.Genres]
                o == MovieUpdate(movies, movieSeq, movie, db)
            IN /\ movies' = o.tbl
               /\ won' = IF o.err = NoErr
                         THEN won \cup {<<movie.ID, movie.Version>>} ELSE won
               /\ call' = WithBody(AfterRead(Logged("Update", movie, movies, o, db,
                                                     <<movie.ID, movie.Version>> \in won),
                                              p.movie),
                                    body)
               /\ resp' = Answer("updateMoviee",
                             <<IF o.err # NoErr THEN StatusServerError ELSE StatusOK>>)
  /\ req' = req (-) SetToBag({p})
  /\ UNCHANGED <<movieSeq, actors, actorSeq, directors, directorSeq, entity, gone>>

\* ---------------------------------------------------------- actor handlers
createActorHandler ==
  /\ entity = "actor"
  /\ Free
  /\ actorSeq < MaxId
  /\ \E decoded \in BOOLEAN : \E body \in IF decoded THEN ActorBodies ELSE ActorBodiesFailed,
        db \in Reachable :
       LET actor == [ZeroActor EXCEPT !.Fullname = OrZero(body.fullname, <<>>),
                                      !.Year = OrZero(body.year, 0),
                                      !.Films = body.films,
                                      !.Girlfriend = OrZero(body.girlfriend, <<>>)]
           o == INSERTACTOR(actors, actorSeq, actor, db)
           first == IF decoded THEN <<>> ELSE <<StatusBadRequest>>
       IN /\ actors' = o.tbl
          /\ actorSeq' = o.seq
          /\ call' = Logged("INSERTACTOR", actor, actors, o, db,
                              FALSE)
          /\ resp' = Answer("createActor",
                        first \o <<IF o.err # NoErr THEN StatusServerError
                                                     ELSE StatusCreated>>)
  /\ UNCHANGED <<movies, movieSeq, directors, directorSeq, entity, req, won, gone>>

showActorHandler ==
  /\ entity = "actor"
  /\ Free
  /\ \E idOk \in BOOLEAN : \E id \in IF idOk THEN IdParams ELSE {0},
        db \in IF idOk THEN Reachable ELSE {"up"} :
       IF ~idOk
       THEN /\ call' = NoCall
            /\ resp' = Answer("showActor", <<StatusNotFound>>)
       ELSE LET o == GetActors(actors, actorSeq, id, db)
            IN /\ call' = Logged("GetActors", [ZeroActor EXCEPT !.ID = id], actors, o, db,
                              FALSE)
               /\ resp' = Answer("showActor",
                             <<IF o.err # NoErr THEN NotFoundOrServerError(o.err)
                                                ELSE StatusOK>>)
  /\ UNCHANGED <<movies, movieSeq, actors, actorSeq, directors, directorSeq, entity, req, won, gone>>

deleteActorHandler ==
  /\ entity = "actor"
  /\ Free
  /\ \E idOk \in BOOLEAN : \E id \in IF idOk THEN IdParams ELSE {0},
        db \in IF idOk THEN Reachable ELSE {"up"} :
       IF ~idOk
       THEN /\ call' = NoCall
            /\ resp' = Answer("deleteActor", <<StatusNotFound>>)
            /\ UNCHANGED actors
            /\ UNCHANGED gone
       ELSE LET o == DeleteActor(actors, actorSeq, id, db)
            IN /\ actors' = o.tbl
               /\ gone' = IF o.err = NoErr THEN gone \cup {<<"actor", id>>} ELSE gone
               /\ call' = Logged("DeleteActor", [ZeroActor EXCEPT !.ID = id], actors, o, db,
                              <<"actor", id>> \in gone)
               /\ resp' = Answer("deleteActor",
                             <<IF o.err # NoErr THEN NotFoundOrServerError(o.err)
                                                ELSE StatusOK>>)
  /\ UNCHANGED <<movies, movieSeq, actorSeq, directors, directorSeq, entity, req, won>>

updateActorHandlerGet ==
  /\ entity = "actor"
  /\ Free
  /\ \E idOk \in BOOLEAN : \E id \in IF idOk THEN IdParams ELSE {0},
        db \in IF idOk THEN Reachable ELSE {"up"} :
       IF ~idOk
       THEN /\ call' = NoCall
            /\ resp' = Answer("updateActor", <<StatusNotFound>>)
            /\ UNCHANGED req
       ELSE LET o == GetActors(actors, actorSeq, id, db)
            IN /\ call' = Logged("GetActors", [ZeroActor EXCEPT !.ID = id], actors, o, db,
                              FALSE)
               /\ IF o.err # NoErr
                  THEN /\ resp' = Answer("updateActor",
                                         <<NotFoundOrServerError(o.err)>>)
                       /\ UNCHANGED req
                  ELSE /\ resp' = Answer("updateActor", <<>>)
                       /\ req' = req (+) SetToBag({Pending("updateActor", ZeroMovie, o.rec)})
  /\ UNCHANGED <<movies, movieSeq, actors, actorSeq, directors, directorSeq, entity, won, gone>>

updateActorHandlerUpdate ==
  \E p \in BagToSet(req) :
  /\ p.h = "updateActor"
  /\ \E decoded \in BOOLEAN : \E body \in IF decoded THEN ActorBodies ELSE ActorBodiesFailed,
        db \in IF decoded THEN Reachable ELSE {"up"} :
       IF ~decoded
       THEN /\ call' = NoCall
            /\ resp' = Answer("updateActor", <<StatusBadRequest>>)
            /\ UNCHANGED actors
       ELSE LET actor == [p.actor EXCEPT
                            !.Fullname = OrZero(body.fullname, <<>>),
                            !.Year = OrZero(body.year, 0),
                            !.Films = body.films,
                            !.Girlfriend = OrZero(body.girlfriend, <<>>)]
                o == UpdateActor(actors, actorSeq, actor, db)
            IN /\ actors' = o.tbl
               /\ call' = WithBody(AfterRead(Logged("UpdateActor", actor, actors, o, db,
                                                     FALSE),
                                              p.actor),
                                    body)
               /\ resp' = Answer("updateActor",
                             <<IF o.err # NoErr THEN StatusServerError ELSE StatusOK>>)
  /\ req' = req (-) SetToBag({p})
  /\ UNCHANGED <<movies, movieSeq, actorSeq, directors, directorSeq, entity, won, gone>>

\* ------------------------------------------------------- director handlers
createDirectorHandler ==
  /\ entity = "director"
  /\ Free
  /\ directorSeq < MaxId
  /\ \E decoded \in BOOLEAN : \E body \in IF decoded THEN DirectorBodies ELSE DirectorBodiesFailed,
        db \in Database :
       LET director == [ZeroDirector EXCEPT !.Name = OrZero(body.name, <<>>),
                                            !.Surname = OrZero(body.surname, <<>>),
                                            !.Awords = body.awords]
           o == InsertDirector(directors, directorSeq, director, db)
           first == IF decoded THEN <<>> ELSE <<StatusBadRequest>>
       IN /\ directors' = o.tbl
          /\ directorSeq' = o.seq
          /\ call' = Logged("InsertDirector", director, directors, o, db, FALSE)
          /\ resp' = Answer("createDirector",
                        first \o <<IF o.err # NoErr THEN StatusServerError
                                                     ELSE StatusCreated>>)
  /\ UNCHANGED <<movies, movieSeq, actors, actorSeq, entity, req, won, gone>>

\* -------------------------------------------------------------- the system
Next ==
  \/ createMovieHandler
  \/ showMovieHandler
  \/ deleteMovieHandler
  \/ updateMovieHandlerGet
  \/ updateMovieeHandlerGet
  \/ createActorHandler
  \/ showActorHandler
  \/ deleteActorHandler
  \/ updateActorHandlerGet
  \/ createDirectorHandler
  \/ updateMovieHandlerUpdate
  \/ updateMovieeHandlerUpdate
  \/ updateActorHandlerUpdate

Spec == Init /\ [][Next]_vars

\* ------------------------------------------------ one request at a time
\* The server with its requests executed one after the other: a request is
\* taken only when no request is between its Get and its Update.
Idle == req = EmptyBag
NextSeq ==
  \/ Idle /\ createMovieHandler
  \/ Idle /\ showMovieHandler
  \/ Idle /\ deleteMovieHandler
  \/ Idle /\ updateMovieHandlerGet
  \/ Idle /\ updateMovieeHandlerGet
  \/ Idle /\ createActorHandler
  \/ Idle /\ showActorHandler
  \/ Idle /\ deleteActorHandler
  \/ Idle /\ updateActorHandlerGet
  \/ Idle /\ createDirectorHandler
  \/ updateMovieHandlerUpdate
  \/ updateMovieeHandlerUpdate
  \/ updateActorHandlerUpdate

SpecSeq == Init /\ [][NextSeq]_vars

\* ------------------------------------------------------------------ lists
\* data.Filters and its methods are in internal/data/filters.go, which is not
\* among the sources; they are taken from the specification (4.1).
ErrValidation == "ValidationError"
MaxPageSize == 100
DefaultPage == 1
DefaultPageSize == 20

Range(s) == {s[i] : i \in DOMAIN s}
Min(a, b) == IF a < b THEN a ELSE b

\* A sort key is the sequence of its leading "-" signs and the rest of it.
HasDash(key) == key # <<>> /\ Head(key) = "-"
sortColumn(f) == IF HasDash(f.Sort) THEN Tail(f.Sort) ELSE f.Sort
sortDirection(f) == IF HasDash(f.Sort) THEN "DESC" ELSE "ASC"
limit(f) == f.PageSize
offset(f) == (f.Page - 1) * f.PageSize
ValidateFilters(f) ==
  IF \/ f.Page <= 0
     \/ f.PageSize <= 0
     \/ f.PageSize > MaxPageSize
     \/ f.Sort \notin f.SortSafelist
  THEN ErrValidation ELSE NoErr

MovieSortSafelist ==
  { <<"id">>, <<"title">>, <<"year">>, <<"runtime">>,
    <<"-", "id">>, <<"-", "title">>, <<"-", "year">>, <<"-", "runtime">> }
DirectorSortSafelist ==
  { <<"id">>, <<"name">>, <<"surname">>, <<"-", "id">>, <<"-", "name">>,
    <<"-", "awords">>, <<"awords">>, <<"-", "surname">>, <<"-", "runtime">> }

\* A query-string parameter is Nil when the URL does not carry it; readString,
\* readInt and readCSV then return the default.
OrDefault(param, default) == IF param = Nil THEN default ELSE param[1]

DirectorOf(id, row) ==
  [ID |-> id, Name |-> row.name, Surname |-> row.surname, Awords |-> row.awords]

\* The columns of each table, the text column the full-text condition reads
\* and the array column the containment condition reads.
Columns(table) ==
  IF table = "movies"
  THEN {"id", "created_at", "title", "year", "runtime", "genres", "version"}
  ELSE {"id", "name", "surname", "awords"}
TextOf(table, row) == IF table = "movies" THEN row.title ELSE row.name
TagsOf(table, row) == IF table = "movies" THEN row.genres ELSE row.awords

\* PostgreSQL folds an identifier that is not quoted to lower case: the
\* spellings with capitals of the column names, and what each folds to.
Folding ==
  [n \in {"ID", "Id"} |-> "id"] @@ [n \in {"Title", "TITLE"} |-> "title"] @@
  [n \in {"Year", "YEAR"} |-> "year"] @@ [n \in {"Runtime", "RUNTIME"} |-> "runtime"] @@
  [n \in {"Genres", "GENRES"} |-> "genres"] @@
  [n \in {"Version", "VERSION"} |-> "version"] @@
  [n \in {"Created_at", "Created_At", "CREATED_AT"} |-> "created_at"] @@
  [n \in {"Name", "NAME"} |-> "name"] @@ [n \in {"Surname", "SURNAME"} |-> "surname"] @@
  [n \in {"Awords", "AWORDS"} |-> "awords"]
Folded(name) == IF name \in DOMAIN Folding THEN Folding[name] ELSE name

\* The database's order of the text and array values of the model; NULL comes
\* after every value.
Collation ==
  << <<>>, <<"crime", "drama">>, <<"denis">>, <<"dune">>, <<"dune", "two">>,
     <<"heat">>, <<"mann">>, <<"michael">>, <<"oscar">>, <<"sci-fi">>,
     <<"villeneuve">> >>
Collate(v) == CHOOSE i \in DOMAIN Collation : Collation[i] = v
CollateArray(opt) == IF opt = Nil THEN Len(Collation) + 1 ELSE Collate(opt[1])

\* The value ORDER BY compares for the row of id.
KeyOf(table, tbl, id, col) ==
  LET row == tbl[id]
      c == Folded(col)
  IN CASE c = "id" -> id
       [] c = "created_at" -> row.created_at
       [] c = "year" -> row.year
       [] c = "runtime" -> row.runtime
       [] c = "version" -> row.version
       [] c = "title" -> Collate(row.title)
       [] c = "genres" -> CollateArray(row.genres)
       [] c = "name" -> Collate(row.name)
       [] c = "surname" -> Collate(row.surname)
       [] c = "awords" -> CollateArray(row.awords)

\* The text that is formatted into the statement, and the values bound to
\* LIMIT and OFFSET.
ListQuery(table, f) ==
  [table |-> table, column |-> sortColumn(f), direction |-> sortDirection(f),
   limit |-> limit(f), offset |-> offset(f)]

\* PostgreSQL accepts the statement when the ORDER BY text (of the sort keys
\* modelled: one word, or one with trailing text) names a column of the table
\* and neither LIMIT nor OFFSET is negative.
Accepted(q) ==
  /\ Len(q.column) = 1
  /\ Folded(q.column[1]) \in Columns(q.table)
  /\ q.limit >= 0
  /\ q.offset >= 0

\* WHERE (to_tsvector('simple', <text>) @@ plainto_tsquery('simple', $1)
\* OR $1 = '') AND (<tags> @> $2 OR $2 = '{}'): every word of $1 is a word of
\* the text column, every element of $2 an element of the array column.
\* TextMatchesNonEmpty is the text condition without its OR $1 = ''.
TextMatchesNonEmpty(table, row, text) ==
  text # <<>> /\ Range(text) \subseteq Range(TextOf(table, row))
TextMatches(table, row, text) ==
  \/ text # <<>> /\ Range(text) \subseteq Range(TextOf(table, row))
  \/ text = <<>>
TagsMatch(table, row, tags) ==
  \/ TagsOf(table, row) # Nil /\ Range(tags) \subseteq Range(TagsOf(table, row)[1])
  \/ tags = <<>>
Selected(table, tbl, text, tags) ==
  {id \in DOMAIN tbl : TextMatches(table, tbl[id], text) /\ TagsMatch(table, tbl[id], tags)}

\* ORDER BY <column> <direction>, id ASC: whether the row of a comes before the
\* row of b.  PrecedesNoTieBreak is the order without its id ASC.
PrecedesNoTieBreak(q, tbl, a, b) ==
  LET ka == KeyOf(q.table, tbl, a, q.column[1])
      kb == KeyOf(q.table, tbl, b, q.column[1])
  IN IF q.direction = "ASC" THEN ka <= kb ELSE ka >= kb
Precedes(q, tbl, a, b) ==
  LET ka == KeyOf(q.table, tbl, a, q.column[1])
      kb == KeyOf(q.table, tbl, b, q.column[1])
  IN \/ IF q.direction = "ASC" THEN ka < kb ELSE ka > kb
     \/ ka = kb /\ a < b

\* The orders in which the database may return the selected rows: every
\* arrangement of them that ORDER BY allows.
Orderings(q, tbl, ids) ==
  IF ~Accepted(q) THEN {<<>>}
  ELSE { s \in [1..Cardinality(ids) -> ids] :
           /\ Range(s) = ids
           /\ \A i, j \in DOMAIN s : i < j => Precedes(q, tbl, s[i], s[j]) }

\* A variant of the window that ends one row later.
WindowOneMore(s, lim, off) == SubSeq(s, off + 1, Min(Len(s), off + lim + 1))
\* LIMIT and OFFSET applied to the ordered rows.
Window(s, lim, off) == SubSeq(s, off + 1, Min(Len(s), off + lim))

\* A list call's outcome: the error, the records returned, whether a statement
\* was handed to the driver, and the statement.
Listed(err, rows, q) == [err |-> err, rec |-> rows, sent |-> TRUE, query |-> q]

\* GetAll and GetAllDirectors: the statement is formatted from the filters and
\* sent with the context's timeout; order is the order in which the database
\* returns the selected rows.
GetAll(tbl, title, genres, f, db, order) ==
  LET q == ListQuery("movies", f)
      w == Window(order, q.limit, q.offset)
  IN IF db = "down" \/ ~Accepted(q) THEN Listed(ErrStorage, <<>>, q)
     ELSE Listed(NoErr, [i \in DOMAIN w |-> MovieOf(w[i], tbl[w[i]])], q)
GetAllDirectors(tbl, name, surname, awords, f, db, order) ==
  LET q == ListQuery("directors", f)
      w == Window(order, q.limit, q.offset)
  IN IF db = "down" \/ ~Accepted(q) THEN Listed(ErrStorage, <<>>, q)
     ELSE Listed(NoErr, [i \in DOMAIN w |-> DirectorOf(w[i], tbl[w[i]])], q)

ListLogged(op, arg, o, db) ==
  [op |-> op, arg |-> arg, err |-> o.err, rec |-> o.rec, sent |-> o.sent,
   down |-> db = "down", query |-> o.query]

\* What a list request may carry in its URL.
Pages == 0..MaxPage
PageSizes == (0..MaxPage) \cup {MaxPageSize + 1}
MovieSorts ==
  { <<"id">>, <<"-", "id">>, <<"year">>, <<"-", "year">>, <<"title">>,
    <<"-", "runtime">>, <<"version">>, <<"year; DROP TABLE movies">>,
    <<"genres">>, <<"-", "created_at">> }
DirectorSorts ==
  { <<"id">>, <<"-", "name">>, <<"surname">>, <<"awords">>, <<"-", "runtime">>,
    <<"Name">> }
Optional(S) == {Nil} \cup {Some(x) : x \in S}
ListRequests(h, texts, tags, sorts) ==
  [h : {h}, text : texts, tags : tags, page : Optional(Pages),
   page_size : Optional(PageSizes), sort : Optional(sorts)]

\* The Filters a list handler fills from the URL.
FiltersOf(p, safelist) ==
  [Page |-> OrDefault(p.page, DefaultPage),
   PageSize |-> OrDefault(p.page_size, DefaultPageSize),
   Sort |-> OrDefault(p.sort, <<"id">>),
   SortSafelist |-> safelist]

\* listMoviesHandler: the filters go to GetAll as they were read.
listMoviesHandler ==
  \E p \in BagToSet(req) :
    /\ p.h = "listMovies"
    /\ LET f == FiltersOf(p, MovieSortSafelist)
       IN \E db \in Reachable,
             order \in Orderings(ListQuery("movies", f), movies,
                                 Selected("movies", movies, p.text, p.tags)) :
            LET o == GetAll(movies, p.text, p.tags, f, db, order)
            IN /\ call' = ListLogged("GetAll",
                                     [text |-> p.text, tags |-> p.tags, filters |-> f],
                                     o, db)
               /\ resp' = Answer("listMovies",
                             <<IF o.err # NoErr THEN StatusServerError ELSE StatusOK>>)
    /\ req' = req (-) SetToBag({p})
    /\ UNCHANGED <<movies, movieSeq, actors, actorSeq, directors, directorSeq, entity, won, gone>>

listDirectorsHandler ==
  \E p \in BagToSet(req) :
    /\ p.h = "listDirectors"
    /\ LET f == FiltersOf(p, DirectorSortSafelist)
       IN \E db \in Reachable,
             order \in Orderings(ListQuery("directors", f), directors,
                                 Selected("directors", directors, p.text, p.tags)) :
            LET o == GetAllDirectors(directors, p.text, <<>>, p.tags, f, db, order)
            IN /\ call' = ListLogged("GetAllDirectors",
                                     [text |-> p.text, tags |-> p.tags, filters |-> f],
                                     o, db)
               /\ resp' = Answer("listDirectors",
                             <<IF o.err # NoErr THEN StatusServerError ELSE StatusOK>>)
    /\ req' = req (-) SetToBag({p})
    /\ UNCHANGED <<movies, movieSeq, actors, actorSeq, directors, directorSeq, entity, won, gone>>

\* The rows a stored data set is made of.
ListedMovieRows ==
  { [created_at |-> 1, title |-> <<"dune">>, year |-> 2021, runtime |-> 155,
     genres |-> Some(<<"sci-fi">>), version |-> 1],
    [created_at |-> 2, title |-> <<"heat">>, year |-> 1995, runtime |-> 170,
     genres |-> Some(<<"crime", "drama">>), version |-> 2],
    [created_at |-> 1, title |-> <<"dune", "two">>, year |-> 2021, runtime |-> 170,
     genres |-> Some(<<>>), version |-> 1] }
ListedDirectorRows ==
  { [name |-> <<"denis">>, surname |-> <<"villeneuve">>, awords |-> Some(<<"oscar">>)],
    [name |-> <<"michael">>, surname |-> <<"mann">>, awords |-> Some(<<>>)] }
Tables(rows) == UNION { [ids -> rows] : ids \in SUBSET (1..MaxId) }

\* A list request is sent NumReqs times against a data set that stays as it
\* is: movies, or directors.
InitList ==
  /\ entity \in {"movie", "director"}
  /\ movies \in IF entity = "movie" THEN Tables(ListedMovieRows) ELSE {<<>>}
  /\ directors \in IF entity = "director" THEN Tables(ListedDirectorRows) ELSE {<<>>}
  /\ movieSeq = MaxId
  /\ directorSeq = MaxId
  /\ actors = <<>>
  /\ actorSeq = 0
  /\ \E p \in IF entity = "movie"
              THEN ListRequests("listMovies", {<<>>, <<"dune">>}, {<<>>, <<"sci-fi">>},
                                MovieSorts)
              ELSE ListRequests("listDirectors", {<<>>, <<"denis">>}, {<<>>, <<"oscar">>},
                                DirectorSorts) :
       req = [x \in {p} |-> NumReqs]
  /\ call = NoCall
  /\ resp = NoAnswer
  /\ won = {}
  /\ gone = {}

NextList ==
  \/ listMoviesHandler
  \/ listDirectorsHandler

SpecList == InitList /\ [][NextList]_vars

\* ------------------------------------------------- a list call in steps
\* GetAll and GetAllDirectors step by step: QueryContext sends the statement
\* under a context that is cancelled 3 seconds later; the database answers, or
\* does not; rows.Next fetches the rows one by one; rows.Err is read when Next
\* returns false.  The server runs one such call at a time here.  The log of the
\* call holds its phase, the rows the statement selects, the rows the database
\* has yet to deliver, the rows fetched, and whether the deadline has passed.
Running == "phase" \in DOMAIN call /\ call.phase \in {"querying", "iterating"}
Returned == "phase" \in DOMAIN call /\ call.phase = "returned"

Started(log, o) ==
  [log EXCEPT !.err = NoErr, !.rec = <<>>] @@
  [phase |-> "querying", answer |-> o.err, rows |-> o.rec, pending |-> o.rec,
   fetched |-> <<>>, timeout |-> FALSE]

\* The call returns nil and the error.
Failed(c, err) == [c EXCEPT !.phase = "returned", !.err = err, !.rec = <<>>]
\* A variant of the deadline's effect: the rows fetched so far are returned as
\* the result.
TimedOutPartial(c) ==
  [c EXCEPT !.phase = "returned", !.err = NoErr, !.rec = c.fetched, !.timeout = TRUE]
\* The context's deadline passes: QueryContext, or rows.Err after rows.Next has
\* returned false, gives the context's error, and the call returns it.
TimedOut(c) == [Failed(c, ErrStorage) EXCEPT !.timeout = TRUE]

ListStatus(c) == IF c.err # NoErr THEN StatusServerError ELSE StatusOK

\* The handler reads the URL and calls GetAll, which formats the statement and
\* hands it to QueryContext.
GetAllQueryContext ==
  /\ ~Running
  /\ \E p \in BagToSet(req) :
       LET movie == p.h = "listMovies"
           table == IF movie THEN "movies" ELSE "directors"
           tbl == IF movie THEN movies ELSE directors
           f == FiltersOf(p, IF movie THEN MovieSortSafelist ELSE DirectorSortSafelist)
       IN \E order \in Orderings(ListQuery(table, f), tbl,
                                 Selected(table, tbl, p.text, p.tags)) :
            LET o == IF movie THEN GetAll(movies, p.text, p.tags, f, "up", order)
                     ELSE GetAllDirectors(directors, p.text, <<>>, p.tags, f, "up", order)
            IN /\ call' = Started(ListLogged(IF movie THEN "GetAll" ELSE "GetAllDirectors",
                                             [text |-> p.text, tags |-> p.tags,
                                              filters |-> f],
                                             o, "up"), o)
               /\ resp' = Answer(p.h, <<>>)
               /\ req' = req (-) SetToBag({p})
  /\ UNCHANGED <<movies, movieSeq, actors, actorSeq, directors, directorSeq, entity, won, gone>>

\* QueryContext returns: with an error when the database is not reached or
\* rejects the statement, with the rows otherwise.
GetAllQueryReturns ==
  /\ Running
  /\ call.phase = "querying"
  /\ \E db \in Reachable :
       LET err == IF db = "down" THEN ErrStorage ELSE call.answer
       IN IF err # NoErr
          THEN /\ call' = Failed(call, err)
               /\ resp' = [resp EXCEPT !.codes = <<ListStatus(call')>>]
          ELSE /\ call' = [call EXCEPT !.phase = "iterating"]
               /\ UNCHANGED resp
  /\ UNCHANGED <<movies, movieSeq, actors, actorSeq, directors, directorSeq, entity, req, won, gone>>

\* rows.Next and rows.Scan: one more row is appended; a failure ends the loop
\* and is returned, by Scan's check or by rows.Err.
GetAllRowsNext ==
  /\ Running
  /\ call.phase = "iterating"
  /\ call.pending # <<>>
  /\ \E db \in Reachable :
       IF db = "down"
       THEN /\ call' = Failed(call, ErrStorage)
            /\ resp' = [resp EXCEPT !.codes = <<ListStatus(call')>>]
       ELSE /\ call' = [call EXCEPT !.fetched = Append(@, Head(call.pending)),
                                    !.pending = Tail(@)]
            /\ UNCHANGED resp
  /\ UNCHANGED <<movies, movieSeq, actors, actorSeq, directors, directorSeq, entity, req, won, gone>>

\* rows.Next returns false after the last row, rows.Err is nil, and the rows
\* fetched are returned.
GetAllReturns ==
  /\ Running
  /\ call.phase = "iterating"
  /\ call.pending = <<>>
  /\ call' = [call EXCEPT !.phase = "returned", !.rec = call.fetched]
  /\ resp' = [resp EXCEPT !.codes = <<ListStatus(call')>>]
  /\ UNCHANGED <<movies, movieSeq, actors, actorSeq, directors, directorSeq, entity, req, won, gone>>

\* The deadline of context.WithTimeout passes while the call is running.
GetAllTimeout ==
  /\ Running
  /\ call' = TimedOut(call)
  /\ resp' = [resp EXCEPT !.codes = <<ListStatus(call')>>]
  /\ UNCHANGED <<movies, movieSeq, actors, actorSeq, directors, directorSeq, entity, req, won, gone>>

NextListSteps ==
  \/ GetAllQueryContext
  \/ GetAllQueryReturns
  \/ GetAllRowsNext
  \/ GetAllReturns
  \/ GetAllTimeout

\* The timer of the context runs whatever the database does.
SpecListSteps == InitList /\ [][NextListSteps]_vars /\ WF_vars(GetAllTimeout)

\* ------------------------------------------------------------ properties
\* An Update whose record carries another version than the stored row.
StaleUpdate ==
  /\ call.op = "Update"
  /\ call.pre # Nil
  /\ call.pre[1].version # call.arg.Version

\* C1: an Update called with a version that differs from the stored one never
\* succeeds and never returns ErrRecordNotFound; whenever the database executes
\* the statement it returns ErrEditConflict.
C1_StaleUpdateIsEditConflict ==
  StaleUpdate =>
    /\ call.err \notin {NoErr, ErrRecordNotFound}
    /\ ~call.down => call.err = ErrEditConflict
C1_Witness ==
  /\ StaleUpdate
  /\ call.err = ErrEditConflict
  /\ call.arg.Version = 1
  /\ call.pre[1].version = 2

\* C2: of the Updates made with the same id and version at most one succeeds;
\* the one that succeeds leaves exactly its own field values stored, at that
\* version plus 1; every other one fails (with ErrEditConflict whenever the
\* statement is executed) and leaves the stored row as the winner wrote it.
C2_AtMostOneUpdatePerVersion ==
  call.op = "Update" =>
    /\ call.err = NoErr =>
         /\ ~call.again
         /\ call.post = Some(MovieRow([call.arg EXCEPT !.Version = call.arg.Version + 1]))
    /\ call.again =>
         /\ call.err # NoErr
         /\ ~call.down => call.err = ErrEditConflict
         /\ call.post = call.pre
C2_Witness ==
  /\ call.op = "Update"
  /\ call.again
  /\ call.err = ErrEditConflict
  /\ call.pre # Nil
  /\ call.pre[1].version = call.arg.Version + 1
  /\ call.pre[1].title # call.arg.Title
  /\ call.post = call.pre

\* C3: a successful Update adds exactly 1 to the stored version and returns it:
\* the caller's version afterwards is the stored one and the one passed plus 1.
C3_UpdateIncrementsVersion ==
  (call.op = "Update" /\ call.err = NoErr) =>
    /\ call.pre # Nil /\ call.post # Nil
    /\ call.post[1].version = call.pre[1].version + 1
    /\ call.rec.Version = call.post[1].version
    /\ call.rec.Version = call.arg.Version + 1
    /\ call.arg.ID \in DOMAIN movies /\ movies[call.arg.ID].version = call.rec.Version
C3_Witness ==
  /\ call.op = "Update" /\ call.err = NoErr
  /\ call.arg.Version = 1
  /\ call.rec.Version = 2

\* C4: a successful Insert returns an id above 0 that no stored movie had, and
\* version 1; a Get of that id right afterwards returns the inserted fields at
\* version 1.
C4_InsertAssignsFreshId ==
  (call.op = "Insert" /\ call.err = NoErr) =>
    /\ call.rec.ID > 0
    /\ call.rec.ID \notin call.ids
    /\ call.rec.Version = 1
    /\ LET got == MovieGet(movies, movieSeq, call.rec.ID, "up")
       IN /\ got.err = NoErr
          /\ got.rec = [call.arg EXCEPT !.ID = call.rec.ID, !.Version = 1]
C4_Witness ==
  /\ call.op = "Insert" /\ call.err = NoErr
  /\ call.ids # {}
  /\ call.rec.Title = <<"dune">>

IsDelete == call.op \in {"Delete", "DeleteActor"}
Table(op) == IF op \in {"Delete", "Get"} THEN "movies" ELSE "actor"
Stored(t) == IF t = "movies" THEN DOMAIN movies ELSE DOMAIN actors

\* C5: Delete and DeleteActor return ErrRecordNotFound for an id below 1 and
\* for an id with no row, however often they are called; on a stored id they
\* succeed whenever the statement is executed, the row is gone afterwards, and
\* no id is deleted twice or stored again after its deletion.
C5_DeleteOnceThenNotFound ==
  /\ IsDelete =>
       /\ call.arg.ID < 1 => call.err = ErrRecordNotFound
       /\ (call.pre = Nil /\ ~call.down) => call.err = ErrRecordNotFound
       /\ (call.pre # Nil /\ ~call.down) => call.err = NoErr
       /\ call.err = NoErr => (call.pre # Nil /\ call.post = Nil /\ ~call.again)
       /\ call.err # NoErr => call.post = call.pre
       /\ call.again => call.err \in {ErrRecordNotFound, ErrStorage}
       /\ (call.again /\ ~call.down) => call.err = ErrRecordNotFound
  /\ \A g \in gone : g[2] \notin Stored(g[1])
C5_Witness ==
  /\ call.op = "Delete"
  /\ call.again
  /\ call.err = ErrRecordNotFound
  /\ DOMAIN movies # {}

IsGet == call.op \in {"Get", "GetActors"}
Scanned(op, id, row) == IF op = "Get" THEN MovieOf(id, row) ELSE ActorOf(id, row)

\* C6: Get and GetActors return ErrRecordNotFound for an id below 1 without
\* sending a query, and for an id with no row, as after its deletion; for a
\* stored id they return the stored record with its current version; a failure
\* of the database is returned as an error other than ErrRecordNotFound.
C6_GetNotFoundOrRecord ==
  IsGet =>
    /\ call.arg.ID < 1 => (call.err = ErrRecordNotFound /\ ~call.sent)
    /\ (call.arg.ID >= 1 /\ call.pre = Nil /\ ~call.down) =>
         call.err = ErrRecordNotFound
    /\ (<<Table(call.op), call.arg.ID>> \in gone /\ ~call.down) =>
         call.err = ErrRecordNotFound
    /\ (call.pre # Nil /\ ~call.down) =>
         /\ call.err = NoErr
         /\ call.rec = Scanned(call.op, call.arg.ID, call.pre[1])
    /\ call.down => call.err \notin {NoErr, ErrRecordNotFound}
    /\ call.post = call.pre
C6_Witness ==
  /\ call.op = "Get"
  /\ <<"movies", call.arg.ID>> \in gone
  /\ call.err = ErrRecordNotFound

IsList == call.op \in {"GetAll", "GetAllDirectors"}
ListedTable == IF call.op = "GetAll" THEN movies ELSE directors
ListedName == IF call.op = "GetAll" THEN "movies" ELSE "directors"

\* C7: a list request whose sort key is not in the safelist is rejected with a
\* ValidationError, and no statement is built from the key or sent.
C7_UnsafeSortRejected ==
  (IsList /\ call.arg.filters.Sort \notin call.arg.filters.SortSafelist) =>
    /\ call.err = ErrValidation
    /\ ~call.sent

\* C8: for a page of at least 1 and a page size from 1 to the maximum the
\* statement's LIMIT is the page size and its OFFSET is (page - 1) * page size;
\* any other page or page size is rejected with a ValidationError.
C8_LimitOffsetOrRejected ==
  IsList =>
    LET f == call.arg.filters
    IN IF f.Page >= 1 /\ f.PageSize >= 1 /\ f.PageSize <= MaxPageSize
       THEN /\ call.query.limit = f.PageSize
            /\ call.query.offset = (f.Page - 1) * f.PageSize
       ELSE /\ call.err = ErrValidation
            /\ ~call.sent

\* The sort column's value of a returned record.
ReturnedKey(r) == KeyOf(ListedName, ListedTable, r.ID, call.query.column[1])
\* The records a list call returned are in the strict order (sort column in the
\* requested direction, then id ascending).
StrictlyOrdered ==
  \A i, j \in DOMAIN call.rec :
    i < j =>
      LET a == call.rec[i]
          b == call.rec[j]
      IN \/ /\ call.query.direction = "ASC"
            /\ ReturnedKey(a) < ReturnedKey(b)
         \/ /\ call.query.direction = "DESC"
            /\ ReturnedKey(a) > ReturnedKey(b)
         \/ /\ ReturnedKey(a) = ReturnedKey(b)
            /\ a.ID < b.ID

\* C9: against a data set that does not change, the rows a list call returns
\* are ordered by (sort column in the requested direction, then id ascending),
\* a strict order, and two calls with the same arguments return the same rows
\* in the same order.
C9_StableListOrder ==
  /\ []((IsList /\ call.err = NoErr) => StrictlyOrdered)
  /\ [][(/\ IsList /\ call.err = NoErr
         /\ IsList' /\ call'.err = NoErr
         /\ call'.arg = call.arg) => call'.rec = call.rec]_vars
C9_Witness ==
  /\ IsList /\ call.err = NoErr
  /\ req = EmptyBag
  /\ Len(call.rec) >= 2
  /\ call.query.column # <<"id">>
  /\ ReturnedKey(call.rec[1]) = ReturnedKey(call.rec[2])

RECURSIVE Ascending(_)
\* The elements of a set of numbers, smallest first.
Ascending(S) ==
  IF S = {} THEN <<>>
  ELSE LET m == CHOOSE x \in S : \A y \in S : x <= y
       IN <<m>> \o Ascending(S \ {m})

\* C10: a list call with an empty text, no tags and the sort key "id" returns
\* the stored rows in ascending order of id whatever they hold: the part of that
\* sequence that LIMIT and OFFSET select, all of it when they cover it.
C10_EmptyFilterListsAllById ==
  (/\ IsList /\ call.err = NoErr
   /\ call.arg.text = <<>> /\ call.arg.tags = <<>>
   /\ call.arg.filters.Sort = <<"id">>) =>
    LET all == Ascending(DOMAIN ListedTable)
        f == call.arg.filters
        first == (f.Page - 1) * f.PageSize + 1
        last == Min(Len(all), (f.Page - 1) * f.PageSize + f.PageSize)
        ids == SubSeq(all, first, last)
    IN /\ Len(call.rec) = Len(ids)
       /\ \A i \in DOMAIN ids :
            call.rec[i] = IF call.op = "GetAll"
                          THEN MovieOf(ids[i], movies[ids[i]])
                          ELSE DirectorOf(ids[i], directors[ids[i]])
C10_Witness ==
  /\ call.op = "GetAll" /\ call.err = NoErr
  /\ call.arg.text = <<>> /\ call.arg.tags = <<>>
  /\ call.arg.filters.Sort = <<"id">>
  /\ Len(call.rec) = Cardinality(DOMAIN movies)
  /\ Len(call.rec) >= 2
  /\ call.rec[1].Title # call.rec[2].Title
  /\ call.rec[1].Genres # call.rec[2].Genres

\* C11: a movie update request whose Update returns ErrEditConflict is answered
\* with the single status 409, by updateMovieHandler and by updateMovieeHandler.
C11_EditConflictIs409 ==
  (call.op = "Update" /\ call.err = ErrEditConflict) =>
    /\ resp.h \in {"updateMovie", "updateMoviee"}
    /\ resp.codes = <<StatusConflict>>

\* C13: an Update of an id whose row was deleted never succeeds and never
\* returns ErrRecordNotFound; whenever the database executes the statement it
\* returns ErrEditConflict; the row is not stored again.
C13_UpdateOfDeletedIsEditConflict ==
  (call.op = "Update" /\ <<"movies", call.arg.ID>> \in gone) =>
    /\ call.pre = Nil
    /\ call.err \notin {NoErr, ErrRecordNotFound}
    /\ ~call.down => call.err = ErrEditConflict
    /\ call.post = Nil
    /\ call.arg.ID \notin DOMAIN movies
C13_Witness ==
  /\ call.op = "Update"
  /\ <<"movies", call.arg.ID>> \in gone
  /\ call.err = ErrEditConflict
  /\ call.arg.Version >= 1

\* C14: every handler that gets ErrRecordNotFound from a repository call (show,
\* delete, and the Get of the update handlers) answers with the single status
\* 404.
C14_NotFoundIs404 ==
  call.err = ErrRecordNotFound => resp.codes = <<StatusNotFound>>

\* C12 as it is stated: on a stored id UpdateActor succeeds whenever the
\* database executes the statement, whatever the caller's values are.
C12_ActorUpdateAlwaysSucceeds ==
  (call.op = "UpdateActor" /\ call.pre # Nil /\ ~call.down) => call.err = NoErr

\* C12: UpdateActor is keyed on the id alone and never reports a conflict.  On a
\* stored id, whenever the database executes the statement: with films not nil
\* it succeeds, whatever was written since the caller read the actor, and stores
\* exactly the caller's values; with films nil (a body without films) it fails
\* on the NOT NULL column, leaves the row as it was and is answered 500.  Two
\* requests that both read and then both write with films both succeed, and the
\* row holds the later writer's values.
C12_ActorUpdateUnconditional ==
  call.op = "UpdateActor" =>
    /\ call.err # ErrEditConflict
    /\ (call.pre # Nil /\ ~call.down /\ call.arg.Films # Nil) => call.err = NoErr
    /\ (call.pre # Nil /\ ~call.down /\ call.arg.Films = Nil) =>
         /\ call.err = ErrStorage
         /\ call.post = call.pre
         /\ resp.codes = <<StatusServerError>>
    /\ call.err = NoErr =>
         /\ call.post = Some(ActorRow(call.arg))
         /\ actors[call.arg.ID] = ActorRow(call.arg)
         /\ resp.codes = <<StatusOK>>
C12_Witness ==
  /\ call.op = "UpdateActor"
  /\ call.err = NoErr
  /\ call.pre # Nil
  /\ ActorOf(call.arg.ID, call.pre[1]) # call.read
  /\ call.pre[1].fullname # call.arg.Fullname
  /\ call.post = Some(ActorRow(call.arg))

\* The Updates that have succeeded on the movie of id: one for each version they
\* were made with (by C2 no version wins twice).
UpdatesOf(id) == {w \in won : w[1] = id}

\* C16: in every reachable state the version of each stored movie is 1 plus the
\* number of Updates that have succeeded on it; in every step the version of a
\* movie that stays stored does not decrease, and changes only in a step that is
\* a successful Update of that movie.
C16_VersionCountsUpdates ==
  /\ [](\A id \in DOMAIN movies :
          movies[id].version = 1 + Cardinality(UpdatesOf(id)))
  /\ [][\A id \in DOMAIN movies \cap DOMAIN movies' :
          /\ movies'[id].version >= movies[id].version
          /\ movies'[id].version # movies[id].version =>
               /\ call'.op = "Update"
               /\ call'.err = NoErr
               /\ call'.arg.ID = id]_vars
C16_Witness ==
  /\ \E id \in DOMAIN movies :
       /\ movies[id].version = 3
       /\ Cardinality(UpdatesOf(id)) = 2
  /\ gone # {}
  /\ Cardinality(DOMAIN movies) = 1

\* C17: a step in which Update returns ErrEditConflict leaves every stored movie
\* row and the sequence as they were, and the caller's record as it was passed,
\* stale version included.
C17_ConflictChangesNothing ==
  [][(call'.op = "Update" /\ call'.err = ErrEditConflict) =>
       /\ movies' = movies
       /\ movieSeq' = movieSeq
       /\ call'.rec = call'.arg
       /\ call'.post = call'.pre]_vars
C17_Witness ==
  /\ call.op = "Update"
  /\ call.err = ErrEditConflict
  /\ resp.h = "updateMoviee"
  /\ Cardinality(DOMAIN movies) = 2
  /\ call.pre # Nil
  /\ call.rec.Version < call.pre[1].version
  /\ call.rec.Version = call.arg.Version

\* C18: with the requests executed one at a time, the Update of a movie update
\* handler never returns ErrEditConflict: the row is stored as the handler read
\* it, and the version passed is the stored one.
C18_SequentialNeverConflicts ==
  call.op = "Update" =>
    /\ call.err # ErrEditConflict
    /\ call.pre # Nil
    /\ MovieOf(call.arg.ID, call.pre[1]) = call.read
    /\ call.arg.Version = call.pre[1].version
    /\ ~call.again
C18_Witness ==
  /\ call.op = "Update"
  /\ call.err = NoErr
  /\ call.rec.Version = 3
  /\ resp = Answer("updateMoviee", <<StatusOK>>)
  /\ gone # {}

\* The rows the logged list call's text and tags select, in the order of its
\* statement, as records.
ListedIds == Selected(ListedName, ListedTable, call.arg.text, call.arg.tags)
ListedOrder == CHOOSE s \in Orderings(call.query, ListedTable, ListedIds) : TRUE
FullListed ==
  [i \in DOMAIN ListedOrder |->
     IF call.op = "GetAll" THEN MovieOf(ListedOrder[i], movies[ListedOrder[i]])
     ELSE DirectorOf(ListedOrder[i], directors[ListedOrder[i]])]
\* The result of the logged list call made for page k instead.
ListPage(k) ==
  LET f == [call.arg.filters EXCEPT !.Page = k]
  IN IF call.op = "GetAll"
     THEN GetAll(movies, call.arg.text, call.arg.tags, f, "up", ListedOrder)
     ELSE GetAllDirectors(directors, call.arg.text, <<>>, call.arg.tags, f, "up",
                          ListedOrder)
RECURSIVE PagesUpTo(_)
\* Pages 1 to k, one after the other.
PagesUpTo(k) == IF k = 0 THEN <<>> ELSE PagesUpTo(k - 1) \o ListPage(k).rec
\* With a page size of at least 1, the pages past this one are past every row.
LastPage == MaxId + 1

\* C19: for a stored data set, filters and a page size of at least 1, a list
\* call returns its page of the pages 1, 2, 3, ...; the pages one after the
\* other are the full ordered sequence of the matching rows, each matching row
\* is on exactly one page, and a page whose offset is at or past the number of
\* matching rows is an empty sequence returned without error.
C19_PagesPartitionTheRows ==
  (/\ IsList /\ call.err = NoErr
   /\ call.arg.filters.Page >= 1 /\ call.arg.filters.PageSize >= 1) =>
    /\ call.rec = ListPage(call.arg.filters.Page).rec
    /\ PagesUpTo(LastPage) = FullListed
    /\ \A k \in 1..LastPage :
         /\ ListPage(k).err = NoErr
         /\ (k - 1) * call.arg.filters.PageSize >= Len(FullListed) =>
              ListPage(k).rec = <<>>
    /\ \A id \in ListedIds :
         Cardinality({k \in 1..LastPage :
                        \E i \in DOMAIN ListPage(k).rec : ListPage(k).rec[i].ID = id}) = 1
C19_Witness ==
  /\ IsList /\ call.err = NoErr
  /\ call.arg.filters.Page = 2 /\ call.arg.filters.PageSize = 1
  /\ Cardinality(ListedIds) = 2
  /\ Len(call.rec) = 1
  /\ call.rec[1].ID = 1
  /\ ListPage(3).rec = <<>>

\* C15: a list call whose deadline passes before it has completed returns an
\* error and no rows, also when rows were fetched already; a call that returns
\* without error returns all the rows of its statement; every list call that is
\* running eventually returns.
C15_ListCallTimesOut ==
  /\ []((Returned /\ call.timeout) => (call.err # NoErr /\ call.rec = <<>>))
  /\ []((Returned /\ call.err # NoErr) => (call.rec = <<>> /\ resp.codes = <<StatusServerError>>))
  /\ []((Returned /\ call.err = NoErr) => call.rec = call.rows)
  /\ (Running ~> Returned)
C15_Witness ==
  /\ Returned
  /\ call.timeout
  /\ call.fetched # <<>>
  /\ call.pending # <<>>
  /\ call.err # NoErr
  /\ call.rec = <<>>

IsCreate == resp.h \in {"createMovie", "createActor", "createDirector"}

\* C20: a create request whose body fails to decode is answered with the single
\* status 400: no insert statement is sent and the table stays as it was.
C20_BadBodyIs400Only ==
  (IsCreate /\ Head(resp.codes) = StatusBadRequest) =>
    /\ resp.codes = <<StatusBadRequest>>
    /\ ~call.sent
    /\ call.post = Nil

\* The value a field of the body supplies, or kept when the body has no such
\* key.
Supplied(opt, kept) == IF opt = Nil THEN kept ELSE opt[1]
\* The record updateMovieeHandler is to pass to Update for the logged request:
\* the record read, with the supplied fields replaced.
PartiallyUpdated ==
  [call.read EXCEPT !.Title = Supplied(call.body.title, call.read.Title),
                    !.Year = Supplied(call.body.year, call.read.Year),
                    !.Runtime = Supplied(call.body.runtime, call.read.Runtime),
                    !.Genres = IF call.body.genres = Nil THEN call.read.Genres
                               ELSE call.body.genres]

\* C21: updateMovieeHandler passes to Update the record its Get read with only
\* the fields of the body replaced; when the request succeeds the stored row
\* holds the supplied fields, the version read plus 1, and for every field the
\* body omits the value it held before, under the same id.
C21_PartialUpdateKeepsOmitted ==
  (call.op = "Update" /\ resp.h = "updateMoviee") =>
    /\ call.arg = PartiallyUpdated
    /\ call.err = NoErr =>
         /\ call.pre = Some(MovieRow(call.read))
         /\ call.post =
              Some(MovieRow([PartiallyUpdated EXCEPT !.Version = call.read.Version + 1]))
         /\ call.body.title = Nil => call.post[1].title = call.pre[1].title
         /\ call.body.year = Nil => call.post[1].year = call.pre[1].year
         /\ call.body.runtime = Nil => call.post[1].runtime = call.pre[1].runtime
         /\ call.body.genres = Nil => call.post[1].genres = call.pre[1].genres
         /\ DOMAIN movies = call.ids
         /\ movies[call.read.ID] = call.post[1]
C21_Witness ==
  /\ call.op = "Update" /\ resp.h = "updateMoviee"
  /\ call.err = NoErr
  /\ call.body.runtime = Nil /\ call.body.genres = Nil
  /\ call.read.Runtime = 155
  /\ call.post[1].runtime = 155
  /\ call.post[1].genres = Some(<<"sci-fi">>)
  /\ call.post[1].title = <<"heat">>
  /\ call.pre[1].title = <<"dune">>

\* C22: an UpdateActor of an id with no stored row returns an error that is
\* neither ErrRecordNotFound nor ErrEditConflict (sql.ErrNoRows whenever the
\* database executes the statement), stores no row under that id, and
\* updateActorHandler answers it with the single status 500; the step leaves
\* the actor table and its sequence as they were.
C22_ActorUpdateOfMissingIs500 ==
  /\ []((call.op = "UpdateActor" /\ call.pre = Nil) =>
          /\ call.err \notin {NoErr, ErrRecordNotFound, ErrEditConflict}
          /\ ~call.down => call.err = ErrNoRows
          /\ call.post = Nil
          /\ call.arg.ID \notin DOMAIN actors
          /\ DOMAIN actors = call.ids
          /\ resp = Answer("updateActor", <<StatusServerError>>))
  /\ [][(call'.op = "UpdateActor" /\ call'.pre = Nil) =>
          /\ actors' = actors
          /\ actorSeq' = actorSeq
          /\ call'.rec = call'.arg]_vars
C22_Witness ==
  /\ call.op = "UpdateActor"
  /\ call.pre = Nil
  /\ <<"actor", call.arg.ID>> \in gone
  /\ call.err = ErrNoRows
  /\ resp.codes = <<StatusServerError>>
  /\ DOMAIN actors # {}

====
